---- MODULE Spec2Model ----
(***************************************************************************)
(* Model of structure_tensor/multiprocessing.py: the parent function       *)
(* parallel_structure_tensor_analysis (argument checks, provisioning of    *)
(* the backing stores, the device queue, the worker pool and the           *)
(* collection loop) and the worker side (_init_worker, _do_work).          *)
(*                                                                         *)
(* Python values are records with a "kind" field.  Strings that the code   *)
(* inspects (device names) are sequences of one-character strings, so that *)
(* lower(), "in", startswith(), split() and int() are computed as Python   *)
(* computes them.  assert statements are executed (the interpreter's       *)
(* default mode).                                                          *)
(***************************************************************************)
EXTENDS Integers, Sequences, FiniteSets, Bags, TLC

(***************************************************************************)
(* Bounds of the model.                                                    *)
(***************************************************************************)
\* Longest device list a caller supplies, and the largest cpu_count().
MaxDevices == 2
\* Largest number of blocks of a volume in the pool specifications.
MaxBlocks == 3
\* Largest extent of the volume along its first axis.
MaxDim == 3
\* Largest extent of the volume along its last axis, where all three vary.
MaxDepth == 2
\* Largest block_size, where the block size varies.
MaxBlockSize == 3
\* Most calls of _do_work made outside the pool.
MaxDirectCalls == 2

(***************************************************************************)
(* Python strings as sequences of characters.                              *)
(***************************************************************************)
None == [kind |-> "None"]

PyStr(chars) == [kind |-> "str", chars |-> chars]

\* str.lower() on one character of the alphabet used by the device names.
LowerChar(c) ==
    CASE c = "C" -> "c"
      [] c = "P" -> "p"
      [] c = "U" -> "u"
      [] c = "D" -> "d"
      [] c = "A" -> "a"
      [] OTHER -> c

\* str.lower()
Lower(s) == [i \in 1..Len(s) |-> LowerChar(s[i])]

\* sub in s
Contains(sub, s) ==
    \E i \in 1..(Len(s) - Len(sub) + 1) : SubSeq(s, i, i + Len(sub) - 1) = sub

\* s.startswith(prefix): case-sensitive.
StartsWith(s, prefix) ==
    /\ Len(s) >= Len(prefix)
    /\ SubSeq(s, 1, Len(prefix)) = prefix

\* s.split(sep) for a one-character separator.
RECURSIVE Split(_, _)
Split(s, sep) ==
    IF \A i \in 1..Len(s) : s[i] # sep
    THEN <<s>>
    ELSE LET i == CHOOSE k \in 1..Len(s) :
                      /\ s[k] = sep
                      /\ \A j \in 1..(k - 1) : s[j] # sep
         IN  <<SubSeq(s, 1, i - 1)>> \o Split(SubSeq(s, i + 1, Len(s)), sep)

Digits == {"0", "1", "2"}

DigitValue(c) == CASE c = "0" -> 0 [] c = "1" -> 1 [] c = "2" -> 2 [] OTHER -> 0

\* Whether int(s) succeeds: an optional sign and at least one digit.
IntParses(s) ==
    LET body == IF Len(s) > 0 /\ s[1] \in {"-", "+"} THEN Tail(s) ELSE s
    IN  /\ Len(body) > 0
        /\ \A i \in 1..Len(body) : body[i] \in Digits

RECURSIVE DigitsValue(_)
DigitsValue(s) ==
    IF Len(s) = 0 THEN 0
    ELSE 10 * DigitsValue(SubSeq(s, 1, Len(s) - 1)) + DigitValue(s[Len(s)])

\* int(s), for s with IntParses(s).
IntOf(s) ==
    IF Len(s) > 0 /\ s[1] = "-" THEN 0 - DigitsValue(Tail(s))
    ELSE IF Len(s) > 0 /\ s[1] = "+" THEN DigitsValue(Tail(s))
    ELSE DigitsValue(s)

CPU == <<"c", "p", "u">>
CUDA == <<"c", "u", "d", "a">>
CUDA_COLON == <<"c", "u", "d", "a", ":">>

(***************************************************************************)
(* Arithmetic helpers.                                                     *)
(***************************************************************************)
Max(a, b) == IF a >= b THEN a ELSE b
Min(a, b) == IF a <= b THEN a ELSE b
CeilDiv(a, b) == (a + b - 1) \div b

RECURSIVE Prod(_)
Prod(s) == IF Len(s) = 0 THEN 1 ELSE Head(s) * Prod(Tail(s))

SeqToBag(s) == [x \in {s[i] : i \in 1..Len(s)} |-> Cardinality({i \in 1..Len(s) : s[i] = x})]

(***************************************************************************)
(* Block Geometry (util.get_block_count, util.get_block,                   *)
(* util.insert_block): the util module is not among the sources; these     *)
(* follow the specification's description of Block Geometry.               *)
(***************************************************************************)
\* Number of blocks along each axis.
BlocksPerAxis(shape, block_size) ==
    [a \in 1..Len(shape) |-> CeilDiv(shape[a], block_size)]

get_block_count(shape, block_size) == Prod(BlocksPerAxis(shape, block_size))

\* The block's index along each of the three axes (last axis fastest).
BlockIndex(block_id, shape, block_size) ==
    LET n == BlocksPerAxis(shape, block_size)
    IN  << block_id \div (n[2] * n[3]), (block_id \div n[3]) % n[2], block_id % n[3] >>

\* Halo radius h = ceil(sigma * truncate), for integral sigma and truncate.
HaloRadius(sigma, truncate) == sigma * truncate

\* get_block: interior extent pos (per axis <<lo, hi>>, hi exclusive), the
\* padded extent clamped to the volume, and the pad widths applied.
get_block(block_id, shape, sigma, block_size, truncate) ==
    LET idx == BlockIndex(block_id, shape, block_size)
        h == HaloRadius(sigma, truncate)
        pos == [a \in 1..3 |->
                   << idx[a] * block_size, Min((idx[a] + 1) * block_size, shape[a]) >>]
        ext == [a \in 1..3 |->
                   << Max(0, pos[a][1] - h), Min(shape[a], pos[a][2] + h) >>]
        pad == [a \in 1..3 |-> << pos[a][1] - ext[a][1], ext[a][2] - pos[a][2] >>]
    IN  [pos |-> pos, ext |-> ext, pad |-> pad]

\* The voxels of an extent.
Box(e) ==
    { <<x, y, z>> : x \in e[1][1]..(e[1][2] - 1),
                    y \in e[2][1]..(e[2][2] - 1),
                    z \in e[3][1]..(e[3][2] - 1) }

\* util.remove_padding: the extent of a padded block with the pad stripped.
remove_padding(ext, pad) ==
    [a \in 1..3 |-> << ext[a][1] + pad[a][1], ext[a][2] - pad[a][2] >>]

\* The spatial (last three) dimensions of an array shape.
Spatial(shape) == SubSeq(shape, Len(shape) - 2, Len(shape))

Voxels(shape) ==
    LET s == Spatial(shape)
    IN  Box(<< <<0, s[1]>>, <<0, s[2]>>, <<0, s[3]>> >>)

\* util.insert_block(volume, block, pos, pad): the computed block (over the
\* padded extent ext) has its pad stripped and is written at pos.  written is
\* the array's write log, a set of <<voxel, block id>>.
insert_block(written, shape, block_id, ext, pos, pad) ==
    written \cup { <<v, block_id>> : v \in (Box(remove_padding(ext, pad)) \cap Box(pos)) \cap Voxels(shape) }

(***************************************************************************)
(* The kernels (st3d and its CuPy counterpart) are not among the sources.  *)
(* Of their results the model keeps the leading axis only, each entry      *)
(* named by its index in the kernel's result; following the specification, *)
(* the eigenvalues come in ascending order, so entry i is the eigenvalue   *)
(* of rank i.                                                              *)
(***************************************************************************)
\* st.structure_tensor_3d(block, sigma, rho, truncate): six components.
structure_tensor_3d == << 0, 1, 2, 3, 4, 5 >>

\* st.eig_special_3d(S, full): val, vec.
eig_special_3d == [val |-> << 0, 1, 2 >>, vec |-> << 0, 1, 2 >>]

\* A flip that leaves the array as it is.
flip_none(a) == a

\* lib.flip(val, axis=0)
flip(a) == [i \in 1..Len(a) |-> a[Len(a) + 1 - i]]

(***************************************************************************)
(* Backing stores.                                                         *)
(***************************************************************************)
\* np.dtype(dtype).itemsize
itemsize(dtype) ==
    CASE dtype = "float64" -> 8
      [] dtype = "float32" -> 4
      [] dtype = "float16" -> 2
      [] OTHER -> 1

\* _create_raw_array: a RawArray("b", prod(shape) * itemsize), which the
\* standard library zero-fills, viewed as an array of the shape and dtype.
\* raw identifies the allocation.
_create_raw_array(raw, shape, dtype) ==
    [kind |-> "ndarray", raw |-> raw, shape |-> shape, dtype |-> dtype,
     nbytes |-> Prod(shape) * itemsize(dtype), fill |-> "zeros"]

_RawArrayArgs(array, shape, dtype) ==
    [kind |-> "_RawArrayArgs", array |-> array, shape |-> shape, dtype |-> dtype]

_MemoryMapArgs(path, shape, dtype, offset, mode) ==
    [kind |-> "_MemoryMapArgs", path |-> path, shape |-> shape, dtype |-> dtype,
     offset |-> offset, mode |-> mode]

\* _RawArrayArgs.get_array / _MemoryMapArgs.get_array: the view a process
\* attaches from a descriptor.
get_array(a) ==
    IF a.kind = "_RawArrayArgs"
    THEN [kind |-> "ndarray", raw |-> a.array, shape |-> a.shape, dtype |-> a.dtype,
          writeable |-> TRUE]
    ELSE [kind |-> "memmap", filename |-> a.path, shape |-> a.shape, dtype |-> a.dtype,
          offset |-> a.offset, writeable |-> (a.mode = "r+")]

\* The memory behind an attached array: a file, or a RawArray.
backing(array) ==
    IF array.kind = "memmap" THEN [file |-> array.filename, raw |-> 0]
    ELSE [file |-> "", raw |-> array.raw]

\* A descriptor that opens the caller's file read-only.
MemmapOutputArgs_readonly(m) == _MemoryMapArgs(m.filename, m.shape, m.dtype, m.offset, "r")

\* The descriptor of a caller-supplied numpy.memmap output (mode "r+").
MemmapOutputArgs(m) == _MemoryMapArgs(m.filename, m.shape, m.dtype, m.offset, "r+")

\* All three eigenvectors of every voxel.
eigenvectors_shape_full(volume) == <<3, 3>> \o volume.shape

\* The shapes the code gives freshly allocated outputs.
eigenvectors_shape(volume) == <<3>> \o volume.shape

eigenvalues_shape(volume, include_all_eigenvalues) ==
    IF include_all_eigenvalues THEN <<3, 3>> \o volume.shape ELSE <<3>> \o volume.shape

structure_tensor_shape(volume) == <<6>> \o volume.shape

(***************************************************************************)
(* State.                                                                  *)
(***************************************************************************)
VARIABLES
    args,                   \* the arguments of the call
    cp,                     \* whether CuPy (the GPU backend) was imported
    ncpu,                   \* cpu_count()
    pc,                     \* position of the parent in the function
    raised,                 \* the exception the call raised, or None
    data_args,
    eigenvectors_args, eigenvectors_array,
    eigenvalues_args, eigenvalues_array,
    structure_tensor_args, structure_tensor_array,
    raw_arrays,             \* the RawArrays allocated so far, in order
    devices,                \* the local variable devices
    queue,                  \* the SimpleQueue of devices
    block_count, count, results,
    progress_calls,         \* the calls made to progress_callback_fn
    returned,               \* the value returned to the caller, or None
    workers,                \* the pool's worker processes
    tasks,                  \* block ids submitted and not yet taken
    outqueue,               \* results put by workers, not yet collected
    store,                  \* per output kind, the set of <<voxel, block id>> written
    handed,                 \* the block ids passed to _do_work, with the worker
    writes,                 \* every insert_block made: output, memory, block, leading axis
    direct                  \* calls of _do_work made outside the pool, with their outcome

provisioning == << data_args, eigenvectors_args, eigenvectors_array,
                   eigenvalues_args, eigenvalues_array,
                   structure_tensor_args, structure_tensor_array, raw_arrays >>

pool == << workers, tasks, outqueue, store, handed >>

collecting == << block_count, count, results, progress_calls >>

inputs == << args, cp, ncpu >>

vars == << args, cp, ncpu, pc, raised, data_args, eigenvectors_args, eigenvectors_array,
           eigenvalues_args, eigenvalues_array, structure_tensor_args,
           structure_tensor_array, raw_arrays, devices, queue, block_count, count,
           results, progress_calls, returned, workers, tasks, outqueue, store, handed,
           writes, direct >>

OutputKinds == {"structure_tensor", "eigenvectors", "eigenvalues"}

(***************************************************************************)
(* The arguments a caller can pass.                                        *)
(***************************************************************************)
DType(name) == [kind |-> "dtype", name |-> name]

\* A numpy.memmap the caller holds.
Memmap(filename, shape, dtype) ==
    [kind |-> "memmap", filename |-> filename, shape |-> shape, dtype |-> dtype,
     offset |-> 128]

NdArray(shape, dtype) == [kind |-> "ndarray", shape |-> shape, dtype |-> dtype]

\* A value that is neither an ndarray nor a memmap (a Python list).
PyList(shape) == [kind |-> "list", shape |-> shape]

Grow(shape) == [shape EXCEPT ![1] = @ + 1]

VolumeShapes == { <<x, y, z>> : x \in 1..MaxDim, y \in 1..2, z \in 1..1 }

\* Shapes and block sizes with at most MaxBlocks blocks.
Geometries ==
    { g \in [shape : VolumeShapes, block_size : 1..2] :
        get_block_count(g.shape, g.block_size) <= MaxBlocks }

EigenvectorsOptions(shape) ==
    { None, DType("float32"),
      Memmap("vec.raw", <<3>> \o shape, "float16"),
      Memmap("vec.raw", <<3, 3>> \o shape, "float16"),
      Memmap("vec.raw", <<3>> \o Grow(shape), "float16") }

EigenvaluesOptions(shape) ==
    { None, DType("float32"),
      Memmap("val.raw", <<3>> \o shape, "float16"),
      Memmap("val.raw", <<3, 3>> \o shape, "float16") }

StructureTensorOptions(shape) ==
    { None, DType("float64"),
      Memmap("st.raw", <<6>> \o shape, "float16"),
      Memmap("st.raw", <<6>> \o Grow(shape), "float16") }

VolumeOptions(shape) ==
    { NdArray(shape, "uint8"), Memmap("vol.raw", shape, "uint8"), PyList(shape) }

\* Entries of a device list: strings, and one value that is not a string.
DeviceNames ==
    { PyStr(CPU), PyStr(<<"C", "P", "U">>),
      PyStr(<<"c", "u", "d", "a", ":", "0">>), PyStr(<<"C", "U", "D", "A", ":", "1">>),
      PyStr(<<"c", "u", "d", "a", ":", "x">>), PyStr(<<"x", "c", "u", "d", "a", ":">>),
      PyStr(<<"c", "u", "d", "a">>), PyStr(<<"c", "u", "d", "a", ":", "-", "1">>),
      PyStr(<<"g", "p", "u">>), [kind |-> "int", chars |-> <<>>] }

PyListOf(items) == [kind |-> "list", items |-> items]

\* Device lists of up to n entries drawn from names, and None.
DeviceLists(names, n) ==
    {None} \cup { PyListOf(l) : l \in UNION { [1..k -> names] : k \in 0..n } }

Function == [kind |-> "function"]

\* A value passed as progress_callback_fn that is not callable.
NotCallable == [kind |-> "int"]

\* The arguments of one call.
MakeArgs(volume, sigma, rho, truncate, block_size, vec, val, st, all, devs, callback) ==
    [volume |-> volume, sigma |-> sigma, rho |-> rho, truncate |-> truncate,
     block_size |-> block_size, eigenvectors |-> vec,
     eigenvalues |-> val, structure_tensor |-> st,
     include_all_eigenvalues |-> all, devices |-> devs,
     progress_callback_fn |-> callback]

(***************************************************************************)
(* The state when parallel_structure_tensor_analysis is entered.           *)
(***************************************************************************)
InitWith(ArgSet, CpSet, NcpuSet) ==
    /\ args \in ArgSet
    /\ cp \in CpSet
    /\ ncpu \in NcpuSet
    /\ pc = "check_outputs"
    /\ raised = None
    /\ data_args = None
    /\ eigenvectors_args = None /\ eigenvectors_array = None
    /\ eigenvalues_args = None /\ eigenvalues_array = None
    /\ structure_tensor_args = None /\ structure_tensor_array = None
    /\ raw_arrays = <<>>
    /\ devices = None
    /\ queue = <<>>
    /\ block_count = 0 /\ count = 0 /\ results = <<>>
    /\ progress_calls = <<>>
    /\ returned = None
    /\ workers = <<>>
    /\ tasks = <<>>
    /\ outqueue = <<>>
    /\ store = [k \in OutputKinds |-> {}]
    /\ handed = <<>>
    /\ writes = {}
    /\ direct = <<>>

ValueError == [kind |-> "ValueError"]
AssertionError == [kind |-> "AssertionError"]
AttributeError == [kind |-> "AttributeError"]

\* The ValueError("No output generated.") that ends the function.
NoOutputGenerated == [kind |-> "ValueError", message |-> "No output generated."]

(***************************************************************************)
(* parallel_structure_tensor_analysis, the parent.                         *)
(***************************************************************************)
\* No check at all.
no_output_specified_never(a) == FALSE

\* The check with the test inverted.
no_output_specified_inverted(a) ==
    \A output \in {a.eigenvectors, a.eigenvalues, a.structure_tensor} : output # None

\* all(output is None for output in [eigenvectors, eigenvalues, structure_tensor])
no_output_specified(a) ==
    \A output \in {a.eigenvectors, a.eigenvalues, a.structure_tensor} : output = None

\* Check that at least one output is specified.
CheckOutputs ==
    /\ pc = "check_outputs"
    /\ IF no_output_specified(args)
       THEN pc' = "raised" /\ raised' = ValueError
       ELSE pc' = "volume" /\ UNCHANGED raised
    /\ UNCHANGED << inputs, direct, writes, provisioning, devices, queue, collecting, returned, pool >>

\* Handle input data: a memmap is described by its file, an ndarray is copied
\* to a shared RawArray, anything else is rejected.
HandleVolume ==
    /\ pc = "volume"
    /\ LET volume == args.volume
           raw == _create_raw_array(Len(raw_arrays) + 1, volume.shape, volume.dtype)
       IN  IF volume.kind = "memmap"
           THEN /\ data_args' = _MemoryMapArgs(volume.filename, volume.shape,
                                               volume.dtype, volume.offset, "r")
                /\ pc' = "eigenvectors"
                /\ UNCHANGED << raw_arrays, raised >>
           ELSE IF volume.kind = "ndarray"
           THEN /\ raw_arrays' = Append(raw_arrays, [raw EXCEPT !.fill = "volume"])
                /\ data_args' = _RawArrayArgs(raw.raw, volume.shape, volume.dtype)
                /\ pc' = "eigenvectors"
                /\ UNCHANGED raised
           ELSE /\ pc' = "raised" /\ raised' = ValueError
                /\ UNCHANGED << raw_arrays, data_args >>
    /\ UNCHANGED << inputs, direct, writes, eigenvectors_args, eigenvectors_array, eigenvalues_args,
                    eigenvalues_array, structure_tensor_args, structure_tensor_array,
                    devices, queue, collecting, returned, pool >>

\* One output: not requested, an adopted memmap, or a fresh RawArray of the
\* given shape.  Gives the descriptor, the caller-facing array and the
\* allocations after the step.
ProvisionOutput(requested, shape, dtype, raws) ==
    IF requested = None
    THEN [args |-> None, array |-> None, raws |-> raws]
    ELSE IF requested.kind = "memmap"
    THEN [args |-> MemmapOutputArgs(requested), array |-> requested, raws |-> raws]
    ELSE LET raw == _create_raw_array(Len(raws) + 1, shape, dtype)
         IN  [args |-> _RawArrayArgs(raw.raw, shape, dtype),
              array |-> [kind |-> "ndarray", raw |-> raw.raw, shape |-> shape,
                         dtype |-> dtype],
              raws |-> Append(raws, raw)]

\* The element type of a fresh allocation: the dtype the caller passed.
requested_dtype(requested) == IF requested.kind = "dtype" THEN requested.name ELSE "none"

\* assert array is None or shape == array.shape
shape_assertion(array, shape) == array = None \/ shape = array.shape

\* Eigenvector output.
ProvisionEigenvectors ==
    /\ pc = "eigenvectors"
    /\ LET shape == eigenvectors_shape(args.volume)
           p == ProvisionOutput(args.eigenvectors, shape, requested_dtype(args.eigenvectors),
                                raw_arrays)
       IN  /\ eigenvectors_args' = p.args
           /\ eigenvectors_array' = p.array
           /\ raw_arrays' = p.raws
           /\ IF shape_assertion(p.array, shape)
              THEN pc' = "eigenvalues" /\ UNCHANGED raised
              ELSE pc' = "raised" /\ raised' = AssertionError
    /\ UNCHANGED << inputs, direct, writes, data_args, eigenvalues_args, eigenvalues_array,
                    structure_tensor_args, structure_tensor_array,
                    devices, queue, collecting, returned, pool >>

\* Eigenvalue output.
ProvisionEigenvalues ==
    /\ pc = "eigenvalues"
    /\ LET shape == eigenvalues_shape(args.volume, args.include_all_eigenvalues)
           p == ProvisionOutput(args.eigenvalues, shape, requested_dtype(args.eigenvalues),
                                raw_arrays)
       IN  /\ eigenvalues_args' = p.args
           /\ eigenvalues_array' = p.array
           /\ raw_arrays' = p.raws
           /\ IF shape_assertion(p.array, shape)
              THEN pc' = "structure_tensor" /\ UNCHANGED raised
              ELSE pc' = "raised" /\ raised' = AssertionError
    /\ UNCHANGED << inputs, direct, writes, data_args, eigenvectors_args, eigenvectors_array,
                    structure_tensor_args, structure_tensor_array,
                    devices, queue, collecting, returned, pool >>

\* Structure tensor output (no shape assertion follows it).
ProvisionStructureTensor ==
    /\ pc = "structure_tensor"
    /\ LET shape == structure_tensor_shape(args.volume)
           p == ProvisionOutput(args.structure_tensor, shape, requested_dtype(args.structure_tensor),
                                raw_arrays)
       IN  /\ structure_tensor_args' = p.args
           /\ structure_tensor_array' = p.array
           /\ raw_arrays' = p.raws
    /\ pc' = "devices"
    /\ UNCHANGED << inputs, direct, writes, raised, data_args, eigenvectors_args, eigenvectors_array,
                    eigenvalues_args, eigenvalues_array,
                    devices, queue, collecting, returned, pool >>

\* isinstance(d, str) and (d.lower() == "cpu" or "cuda:" in d.lower())
device_ok(d) ==
    /\ d.kind = "str"
    /\ (Lower(d.chars) = CPU \/ Contains(CUDA_COLON, Lower(d.chars)))

\* Check devices: None means all CPUs.
CheckDevices ==
    /\ pc = "devices"
    /\ IF args.devices = None
       THEN /\ devices' = [i \in 1..ncpu |-> PyStr(CPU)]
            /\ pc' = "queue"
            /\ UNCHANGED raised
       ELSE IF \A i \in 1..Len(args.devices.items) : device_ok(args.devices.items[i])
       THEN /\ devices' = args.devices.items
            /\ pc' = "queue"
            /\ UNCHANGED raised
       ELSE /\ pc' = "raised" /\ raised' = ValueError
            /\ UNCHANGED devices
    /\ UNCHANGED << inputs, direct, writes, provisioning, queue, collecting, returned, pool >>

\* queue = SimpleQueue(); for device in devices: queue.put(device)
FillQueue ==
    /\ pc = "queue"
    /\ queue' = devices
    /\ pc' = "pool"
    /\ UNCHANGED << inputs, direct, writes, raised, provisioning, devices, collecting, returned, pool >>

\* A pool with one process more than there are devices.
pool_processes_one_more(devs) == Len(devs) + 1

\* Pool(processes=len(devices), ...)
pool_processes(devs) == Len(devs)

\* A submission that repeats block id 0 in place of the last id.
task_ids_repeat(n) == [i \in 1..n |-> IF i = n THEN 0 ELSE i - 1]

\* range(block_count), submitted with chunksize=1: one task per block id.
task_ids(n) == [i \in 1..n |-> i - 1]

\* A worker process as the pool starts it: module globals _worker_args and
\* _data_sources are None.
SpawnedWorker ==
    [pc |-> "spawned", worker_args |-> None, data_sources |-> None,
     block_id |-> -1, blk |-> None, lib |-> "none", takes |-> 0,
     device_id |-> -1, selected |-> FALSE, val |-> <<>>]

\* block_count = util.get_block_count(volume, block_size), then the Pool is
\* created (it refuses fewer than one process) and the block ids submitted.
StartPool ==
    /\ pc = "pool"
    /\ block_count' = get_block_count(args.volume.shape, args.block_size)
    /\ count' = 0
    /\ results' = <<>>
    /\ IF pool_processes(devices) < 1
       THEN /\ pc' = "raised" /\ raised' = ValueError
            /\ UNCHANGED << workers, tasks >>
       ELSE /\ workers' = [w \in 1..pool_processes(devices) |-> SpawnedWorker]
            /\ tasks' = task_ids(block_count')
            /\ pc' = "collect"
            /\ UNCHANGED raised
    /\ UNCHANGED << inputs, direct, writes, provisioning, devices, queue, progress_calls, returned,
                    outqueue, store, handed >>

\* isinstance(progress_callback_fn, Callable)
IsCallable(f) == f.kind = "function"

\* A callback call with the count before the increment.
progress_call_stale(n, total) == << n - 1, total >>

\* progress_callback_fn(count, block_count)
progress_call(n, total) == << n, total >>

\* Leaving the with block terminates the pool's processes.
Terminated(ws) == [w \in DOMAIN ws |-> [ws[w] EXCEPT !.pc = "terminated"]]

\* One iteration of the loop over pool.imap_unordered: the next result in
\* arrival order; a task's exception is re-raised in the parent.
Collect ==
    /\ pc = "collect"
    /\ outqueue # <<>>
    /\ LET res == Head(outqueue)
       IN  IF res.success
           THEN /\ count' = count + 1
                /\ results' = Append(results, res.value)
                /\ progress_calls' =
                       IF IsCallable(args.progress_callback_fn)
                       THEN Append(progress_calls, progress_call(count + 1, block_count))
                       ELSE progress_calls
                /\ UNCHANGED << pc, raised, workers >>
           ELSE /\ pc' = "raised" /\ raised' = res.value
                /\ workers' = Terminated(workers)
                /\ UNCHANGED << count, results, progress_calls >>
    /\ outqueue' = Tail(outqueue)
    /\ UNCHANGED << inputs, direct, writes, provisioning, devices, queue, block_count, returned,
                    tasks, store, handed >>

\* A loop that stops at the first result.
loop_finished_early(n, total) == n >= 1 \/ n = total

\* The iterator is exhausted once every submitted task's result was yielded.
loop_finished(n, total) == n = total

\* The outputs in the order of the function's parameters.
output_list_parameter_order(st, vec, val) ==
    (IF vec # None THEN <<vec>> ELSE <<>>)
        \o (IF val # None THEN <<val>> ELSE <<>>)
        \o (IF st # None THEN <<st>> ELSE <<>>)

\* output = [], then the non-None arrays in the order structure tensor,
\* eigenvectors, eigenvalues.
output_list(st, vec, val) ==
    (IF st # None THEN <<st>> ELSE <<>>)
        \o (IF vec # None THEN <<vec>> ELSE <<>>)
        \o (IF val # None THEN <<val>> ELSE <<>>)

\* The end of the loop: the pool is terminated and the outputs are returned,
\* a single array or a tuple of two or three.
ReturnOutput ==
    /\ pc = "collect"
    /\ loop_finished(count, block_count)
    /\ workers' = Terminated(workers)
    /\ LET output == output_list(structure_tensor_array, eigenvectors_array,
                                 eigenvalues_array)
       IN  IF Len(output) = 1
           THEN pc' = "returned" /\ returned' = output[1] /\ UNCHANGED raised
           ELSE IF Len(output) \in {2, 3}
           THEN /\ pc' = "returned"
                /\ returned' = [kind |-> "tuple", items |-> output]
                /\ UNCHANGED raised
           ELSE pc' = "raised" /\ raised' = NoOutputGenerated /\ UNCHANGED returned
    /\ UNCHANGED << inputs, direct, writes, provisioning, devices, queue, collecting, tasks,
                    outqueue, store, handed >>

(***************************************************************************)
(* The worker processes.                                                   *)
(***************************************************************************)
\* _InitArgs.get_data_sources: attach every described array, take a device.
get_data_sources(device) ==
    [data |-> get_array(data_args),
     structure_tensor |->
         IF structure_tensor_args # None THEN get_array(structure_tensor_args) ELSE None,
     eigenvectors |->
         IF eigenvectors_args # None THEN get_array(eigenvectors_args) ELSE None,
     eigenvalues |->
         IF eigenvalues_args # None THEN get_array(eigenvalues_args) ELSE None,
     device |-> device]

\* The immutable payload passed to every worker.
init_args ==
    [data_args |-> data_args, structure_tensor_args |-> structure_tensor_args,
     eigenvectors_args |-> eigenvectors_args, eigenvalues_args |-> eigenvalues_args,
     rho |-> args.rho, sigma |-> args.sigma, block_size |-> args.block_size,
     truncate |-> args.truncate,
     include_all_eigenvalues |-> args.include_all_eigenvalues]

\* A get that reads the oldest entry and leaves it in the queue.
queue_peek(q) == [item |-> Head(q), rest |-> q]

\* devices.get(): the oldest entry is removed from the queue.
queue_get(q) == [item |-> Head(q), rest |-> Tail(q)]

\* _init_worker: runs once in each worker; devices.get() blocks on an empty
\* queue.
InitWorker(w) ==
    /\ workers[w].pc = "spawned"
    /\ queue # <<>>
    /\ workers' = [workers EXCEPT ![w] =
                      [@ EXCEPT !.pc = "idle",
                                !.worker_args = init_args,
                                !.data_sources = get_data_sources(queue_get(queue).item),
                                !.takes = @ + 1]]
    /\ queue' = queue_get(queue).rest
    /\ UNCHANGED << inputs, direct, writes, pc, raised, provisioning, devices, collecting, returned,
                    tasks, outqueue, store, handed >>

\* The compute path of _do_work: CuPy when it was imported and the device
\* starts with "cuda"; int() of the part after the first colon may raise;
\* selected tells whether cp.cuda.Device(device_id).use() was called.
compute_path(device) ==
    IF cp /\ StartsWith(device.chars, CUDA)
    THEN LET split == Split(device.chars, ":")
         IN  IF Len(split) > 1
             THEN IF IntParses(split[2])
                  THEN [ok |-> TRUE, lib |-> "cp", device_id |-> IntOf(split[2]),
                        selected |-> TRUE]
                  ELSE [ok |-> FALSE, lib |-> "none", device_id |-> -1,
                        selected |-> FALSE]
             ELSE [ok |-> TRUE, lib |-> "cp", device_id |-> -1, selected |-> FALSE]
    ELSE [ok |-> TRUE, lib |-> "np", device_id |-> -1, selected |-> FALSE]

\* A _do_work without the two checks of the module globals.
worker_uninitialized_unchecked(me) == FALSE

\* if _worker_args is None: raise ...; if _data_sources is None: raise ...
worker_uninitialized(me) == me.worker_args = None \/ me.data_sources = None

\* The start of _do_work in a process whose module globals are those of me:
\* the two checks raise ValueError; past them, an attribute of None raises
\* AttributeError; otherwise the compute path is resolved.
do_work_entry(me) ==
    IF worker_uninitialized(me)
    THEN [ok |-> FALSE, error |-> ValueError, lib |-> "none", device_id |-> -1,
          selected |-> FALSE]
    ELSE IF me.worker_args = None \/ me.data_sources = None
    THEN [ok |-> FALSE, error |-> AttributeError, lib |-> "none", device_id |-> -1,
          selected |-> FALSE]
    ELSE LET path == compute_path(me.data_sources.device)
         IN  [ok |-> path.ok, error |-> IF path.ok THEN None ELSE ValueError,
              lib |-> path.lib, device_id |-> path.device_id,
              selected |-> path.selected]

\* A fetch that ignores the block id and always takes block 0.
do_work_get_block_first(block_id, wargs, data) ==
    get_block(0, data.shape, Max(wargs.sigma, wargs.rho), wargs.block_size,
              wargs.truncate)

\* A fetch that cuts the volume into blocks of one voxel.
do_work_get_block_unit(block_id, wargs, data) ==
    get_block(block_id, data.shape, Max(wargs.sigma, wargs.rho), 1, wargs.truncate)

\* util.get_block(block_id, data, sigma=max(sigma, rho), block_size, truncate)
do_work_get_block(block_id, wargs, data) ==
    get_block(block_id, data.shape, Max(wargs.sigma, wargs.rho), wargs.block_size,
              wargs.truncate)

\* A write made whether or not the output was requested.
write_block_unconditional(written, array, me) ==
    insert_block(written, me.data_sources.data.shape, me.block_id, me.blk.ext, me.blk.pos,
                 me.blk.pad)

\* The write of one result of the kernel, when that output was requested.
write_block(written, array, me) ==
    IF array # None
    THEN insert_block(written, array.shape, me.block_id, me.blk.ext, me.blk.pos, me.blk.pad)
    ELSE written

\* The record of that write: which output, which memory, which block, and
\* the leading axis of what was written.
log_block(log, kind, array, me, content) ==
    IF array # None
    THEN log \cup { [kind |-> kind, target |-> backing(array), block_id |-> me.block_id,
                     axis0 |-> content] }
    ELSE log

\* A worker that takes a task while its block procedure is at its return.
worker_free_at_return(me) == me.pc \in {"idle", "return"}

\* The pool's worker loop takes the next task only between two calls of
\* _do_work.
worker_free(me) == me.pc = "idle"

\* _do_work up to the structure tensor: the initialization checks, the
\* compute path, util.get_block, S = st.structure_tensor_3d(block, ...) and
\* the insertion of S if requested.  An exception is the task's result.
TakeTask(w) ==
    /\ pc = "collect"
    /\ worker_free(workers[w])
    /\ tasks # <<>>
    /\ LET block_id == Head(tasks)
           me == workers[w]
           entry == do_work_entry(me)
           started == [me EXCEPT !.pc = "eigenvectors",
                                 !.block_id = block_id,
                                 !.lib = entry.lib,
                                 !.device_id = entry.device_id,
                                 !.selected = entry.selected,
                                 !.val = <<>>,
                                 !.blk = do_work_get_block(block_id, me.worker_args,
                                                           me.data_sources.data)]
       IN  /\ handed' = Append(handed, [block_id |-> block_id, worker |-> w,
                                        device |-> IF me.data_sources = None THEN None
                                                   ELSE me.data_sources.device])
           /\ IF entry.ok
              THEN /\ workers' = [workers EXCEPT ![w] = started]
                   /\ store' = [store EXCEPT !["structure_tensor"] =
                                   write_block(@, me.data_sources.structure_tensor, started)]
                   /\ writes' = log_block(writes, "structure_tensor",
                                          me.data_sources.structure_tensor, started,
                                          structure_tensor_3d)
                   /\ UNCHANGED outqueue
              ELSE /\ outqueue' = Append(outqueue,
                          [success |-> FALSE, value |-> entry.error, worker |-> w,
                           block_id |-> block_id])
                   /\ UNCHANGED << workers, store, writes >>
    /\ tasks' = Tail(tasks)
    /\ UNCHANGED << inputs, direct, pc, raised, provisioning, devices, queue, collecting,
                    returned >>

\* val, vec = st.eig_special_3d(S, ...), vec inserted if requested.
WriteEigenvectors(w) ==
    /\ workers[w].pc = "eigenvectors"
    /\ store' = [store EXCEPT !["eigenvectors"] =
                    write_block(@, workers[w].data_sources.eigenvectors, workers[w])]
    /\ writes' = log_block(writes, "eigenvectors", workers[w].data_sources.eigenvectors,
                           workers[w], eig_special_3d.vec)
    /\ workers' = [workers EXCEPT ![w].pc = "eigenvalues", ![w].val = eig_special_3d.val]
    /\ UNCHANGED << inputs, direct, pc, raised, provisioning, devices, queue, collecting,
                    returned, tasks, outqueue, handed >>

\* val flipped and inserted if requested.
WriteEigenvalues(w) ==
    /\ workers[w].pc = "eigenvalues"
    /\ LET requested == workers[w].data_sources.eigenvalues # None
           val == IF requested THEN flip(workers[w].val) ELSE workers[w].val
       IN  /\ store' = [store EXCEPT !["eigenvalues"] =
                           write_block(@, workers[w].data_sources.eigenvalues, workers[w])]
           /\ writes' = log_block(writes, "eigenvalues", workers[w].data_sources.eigenvalues,
                                  workers[w], val)
           /\ workers' = [workers EXCEPT ![w].pc = "return", ![w].val = val]
    /\ UNCHANGED << inputs, direct, pc, raised, provisioning, devices, queue, collecting,
                    returned, tasks, outqueue, handed >>

\* return block_id: the completion signal.
ReturnBlock(w) ==
    /\ workers[w].pc = "return"
    /\ outqueue' = Append(outqueue,
           [success |-> TRUE, value |-> workers[w].block_id, worker |-> w,
            block_id |-> workers[w].block_id])
    /\ workers' = [workers EXCEPT ![w].pc = "idle"]
    /\ UNCHANGED << inputs, direct, writes, pc, raised, provisioning, devices, queue, collecting,
                    returned, tasks, store, handed >>

\* The process that imported the module and calls its functions:
\* _init_worker runs only in the pool's workers, so here _worker_args and
\* _data_sources keep the value None the module gives them.
CallerProcess == SpawnedWorker

\* _do_work(block_id) called in the caller's process: the start of the
\* procedure fails, nothing is fetched, computed, written or returned.
DoWorkDirect(block_id) ==
    /\ Len(direct) < MaxDirectCalls
    /\ LET me == CallerProcess
           entry == do_work_entry(me)
       IN  /\ ~entry.ok
           /\ direct' = Append(direct,
                  [block_id |-> block_id, raised |-> entry.error, returned |-> None,
                   blk |-> me.blk, lib |-> entry.lib, written |-> {}])
    /\ UNCHANGED << inputs, writes, pc, raised, provisioning, devices, queue, collecting,
                    returned, pool >>

(***************************************************************************)
(* Specifications.                                                         *)
(***************************************************************************)
Next ==
    \/ CheckOutputs
    \/ HandleVolume
    \/ ProvisionEigenvectors
    \/ ProvisionEigenvalues
    \/ ProvisionStructureTensor
    \/ CheckDevices
    \/ FillQueue
    \/ StartPool
    \/ Collect
    \/ ReturnOutput
    \/ \E w \in DOMAIN workers : InitWorker(w)
    \/ \E w \in DOMAIN workers : TakeTask(w)
    \/ \E w \in DOMAIN workers : WriteEigenvectors(w)
    \/ \E w \in DOMAIN workers : WriteEigenvalues(w)
    \/ \E w \in DOMAIN workers : ReturnBlock(w)

\* The environment matters to a call only through cpu_count() when no device
\* list is given and through CuPy when a device name starts with cuda (in
\* any case); the initial states leave the rest fixed.
NamesCuda(d) == d.kind = "str" /\ StartsWith(Lower(d.chars), CUDA)

RelevantEnvironment ==
    /\ args.devices # None => ncpu = 1
    /\ cp => /\ args.devices # None
             /\ \E i \in 1..Len(args.devices.items) : NamesCuda(args.devices.items[i])

\* Volumes for the pool: rows of unit blocks along the first or the second
\* axis, and one volume whose last block is clipped.
PoolGeometries ==
    { g \in Geometries :
        \/ g.block_size = 1 /\ (g.shape[1] = 1 \/ g.shape[2] = 1)
        \/ g.shape = << MaxDim, 1, 1 >> }

\* Device lists for the pool: none (one CPU worker per processing unit), the
\* empty list, and CPU entries followed by one GPU name, one that int()
\* accepts or one that it rejects.
PoolDeviceLists ==
    { None, PyListOf(<<>>), PyListOf(<< PyStr(CPU) >>) } \cup
    { PyListOf([i \in 1..k |-> PyStr(CPU)] \o tail) :
        k \in 0..MaxDevices,
        tail \in { << PyStr(<<"c", "u", "d", "a", ":", "0">>) >>,
                   << PyStr(<<"c", "u", "d", "a", ":", "x">>) >> } }

\* The requested outputs (eigenvectors, eigenvalues, structure tensor) and
\* the progress callback of the calls that exercise the pool.
PoolOutputs(shape) ==
    { << DType("float32"), DType("float32"), None, Function >>,
      << None, DType("float32"), Memmap("st.raw", <<6>> \o shape, "float16"),
         NotCallable >>,
      << None, None, None, None >> }

\* Calls that exercise the pool: volumes of up to MaxBlocks blocks, device
\* lists of up to MaxDevices entries.
PoolArgs ==
    UNION { { MakeArgs(NdArray(g.shape, "uint8"), 1, 1, 1, g.block_size,
                       o[1], o[2], o[3], FALSE, d, o[4]) :
                o \in PoolOutputs(g.shape),
                d \in { l \in PoolDeviceLists :
                          l = None \/ Len(l.items) <= MaxDevices } } :
            g \in PoolGeometries }

Init == InitWith(PoolArgs, BOOLEAN, 1..MaxDevices) /\ RelevantEnvironment

Spec == Init /\ [][Next]_vars

\* Calls that exercise the provisioning: every combination of the three
\* outputs (not requested, a dtype, a memmap of several shapes), both values
\* of include_all_eigenvalues, every kind of volume; one CPU worker.
ProvisionArgs ==
    UNION { { MakeArgs(v, 1, 1, 1, g.block_size, vec, val, st, all, d, None) :
                v \in VolumeOptions(g.shape),
                vec \in EigenvectorsOptions(g.shape),
                val \in EigenvaluesOptions(g.shape),
                st \in StructureTensorOptions(g.shape),
                all \in BOOLEAN,
                d \in { PyListOf(<< PyStr(CPU) >>) } } :
            g \in { h \in Geometries : h.block_size = 2 /\ h.shape[2] = 1 } }

InitProvision == InitWith(ProvisionArgs, {FALSE}, {1})

SpecProvision == InitProvision /\ [][Next]_vars

\* Calls that exercise the device list: every list of up to MaxDevices
\* entries, and none; a volume of two blocks.
DevicesArgs ==
    { MakeArgs(NdArray(<<2, 1, 1>>, "uint8"), 1, 1, 1, 1, DType("float32"),
               DType("float32"), None, FALSE, d, None) :
        d \in DeviceLists(DeviceNames, MaxDevices) }

InitDevices == InitWith(DevicesArgs, BOOLEAN, 1..MaxDevices) /\ RelevantEnvironment

SpecDevices == InitDevices /\ [][Next]_vars

\* Calls that exercise the block geometry: volumes that vary along all three
\* axes, every block size up to MaxBlockSize, the eigenvalues as the only
\* output, one CPU worker.
GeometryArgs ==
    { MakeArgs(NdArray(<< x, y, z >>, "uint8"), 1, 1, 1, b, None, DType("float32"),
               None, FALSE, PyListOf(<< PyStr(CPU) >>), None) :
        x \in 1..MaxDim, y \in 1..MaxDim, z \in 1..MaxDepth, b \in 1..MaxBlockSize }

InitGeometry == InitWith(GeometryArgs, {FALSE}, {1})

SpecGeometry == InitGeometry /\ [][Next]_vars

\* Calls during which _do_work is also called from the caller's process:
\* a volume of two blocks, one worker.
DirectArgs ==
    { MakeArgs(NdArray(<< 2, 1, 1 >>, "uint8"), 1, 1, 1, 1, DType("float32"),
               DType("float32"), None, FALSE, PyListOf(<< d >>), None) :
        d \in { PyStr(CPU), PyStr(<< "c", "u", "d", "a", ":", "0" >>) } }

InitDirect == InitWith(DirectArgs, BOOLEAN, {1}) /\ RelevantEnvironment

NextDirect ==
    \/ Next
    \/ \E block_id \in 0..(MaxBlocks - 1) : DoWorkDirect(block_id)

SpecDirect == InitDirect /\ [][NextDirect]_vars

\* Calls that exercise the volume's memory: the volume as an ndarray or as a
\* memmap of the file vol.raw; the structure tensor not requested, freshly
\* allocated, a memmap of a file of its own, or a memmap of the file vol.raw;
\* one CPU worker per processing unit.
VolumeArgs ==
    UNION { { MakeArgs(v, 1, 1, 1, 1, None, DType("float32"), st, FALSE, None, None) :
                v \in { NdArray(<< n, 1, 1 >>, "uint8"),
                        Memmap("vol.raw", << n, 1, 1 >>, "uint8") },
                st \in { None, DType("float64"),
                         Memmap("st.raw", << 6, n, 1, 1 >>, "float16"),
                         Memmap("vol.raw", << 6, n, 1, 1 >>, "uint8") } } :
            n \in 1..MaxBlocks }

InitVolume == InitWith(VolumeArgs, {FALSE}, 1..MaxDevices)

SpecVolume == InitVolume /\ [][Next]_vars

\* The steps of the parent process, and of one worker process.
ParentStep ==
    \/ CheckOutputs
    \/ HandleVolume
    \/ ProvisionEigenvectors
    \/ ProvisionEigenvalues
    \/ ProvisionStructureTensor
    \/ CheckDevices
    \/ FillQueue
    \/ StartPool
    \/ Collect
    \/ ReturnOutput

WorkerStep(w) ==
    /\ w \in DOMAIN workers
    /\ \/ InitWorker(w)
       \/ TakeTask(w)
       \/ WriteEigenvectors(w)
       \/ WriteEigenvalues(w)
       \/ ReturnBlock(w)

\* The operating system gives every process that can run a turn: the parent
\* and each worker keep taking their steps while they have one to take.
Fairness ==
    /\ WF_vars(ParentStep)
    /\ \A w \in 1..MaxDevices : WF_vars(WorkerStep(w))

\* Calls under fair scheduling: rows of up to MaxBlocks unit blocks, the
\* eigenvalues as the only output; no device list (one CPU worker per
\* processing unit), a CPU and a GPU device, or one GPU name that int()
\* rejects.
LiveArgs ==
    { MakeArgs(NdArray(<< n, 1, 1 >>, "uint8"), 1, 1, 1, 1, None, DType("float32"),
               None, FALSE, d, None) :
        n \in 1..MaxBlocks,
        d \in { None,
                PyListOf(<< PyStr(CPU), PyStr(<< "c", "u", "d", "a", ":", "0" >>) >>),
                PyListOf(<< PyStr(<< "c", "u", "d", "a", ":", "x" >>) >>) } }

InitLive == InitWith(LiveArgs, BOOLEAN, 1..MaxDevices) /\ RelevantEnvironment

SpecLive == InitLive /\ [][Next]_vars /\ Fairness

(***************************************************************************)
(* Properties.                                                             *)
(***************************************************************************)
BlockIds == 0..(block_count - 1)

HandedIds == { handed[i].block_id : i \in 1..Len(handed) }

Initialized(w) == workers[w].data_sources # None

\* The interior region of a block of the call's volume.
Interior(b) ==
    Box(get_block(b, args.volume.shape, Max(args.sigma, args.rho), args.block_size,
                  args.truncate).pos)

\* The caller-facing array of an output kind.
ArrayOf(k) ==
    CASE k = "structure_tensor" -> structure_tensor_array
      [] k = "eigenvectors" -> eigenvectors_array
      [] k = "eigenvalues" -> eigenvalues_array

\* The argument the caller passed for an output kind.
RequestOf(k) ==
    CASE k = "structure_tensor" -> args.structure_tensor
      [] k = "eigenvectors" -> args.eigenvectors
      [] k = "eigenvalues" -> args.eigenvalues

\* C1: every block id 0..block_count-1 is handed to _do_work exactly once
\* across the pool: no id is handed twice at any time, only ids of the range
\* are handed, and when the call returns every id was handed and the
\* completion signals collected are each id exactly once.
C1_ExactlyOnce ==
    /\ \A i, j \in 1..Len(handed) :
           i # j => handed[i].block_id # handed[j].block_id
    /\ HandedIds \subseteq BlockIds
    /\ pc = "returned" =>
           /\ HandedIds = BlockIds
           /\ Len(results) = block_count
           /\ \A b \in BlockIds :
                  Cardinality({ i \in 1..Len(results) : results[i] = b }) = 1

\* A return after two workers shared three blocks, completions out of id order.
C1_Witness ==
    /\ pc = "returned"
    /\ block_count = 3
    /\ \E i, j \in 1..Len(handed) : handed[i].worker # handed[j].worker
    /\ results[1] # 0

\* C2: in every output, no voxel is written by two different block ids, and
\* every write of a block id lies in that block's interior region.
C2_DisjointWrites ==
    \A k \in OutputKinds :
        /\ \A p, q \in store[k] : p[1] = q[1] => p[2] = q[2]
        /\ \A p \in store[k] : p[1] \in Interior(p[2])

\* Two workers in the middle of different blocks, both having written.
C2_Witness ==
    \E k \in OutputKinds :
        \E p, q \in store[k] :
            /\ p[2] # q[2]
            /\ \E v, w \in DOMAIN workers :
                   /\ v # w
                   /\ workers[v].pc = "return" /\ workers[v].block_id = p[2]
                   /\ workers[w].pc = "return" /\ workers[w].block_id = q[2]

\* The devices bound to initialized workers, as a bag.
BoundDevices ==
    LET ws == { w \in DOMAIN workers : Initialized(w) }
        ds == { workers[w].data_sources.device : w \in ws }
    IN  [d \in ds |-> Cardinality({ w \in ws : workers[w].data_sources.device = d })]

\* C3: the pool has len(devices) workers; each worker takes from the device
\* queue exactly once, in its initialization; every block a worker processes
\* runs with the device it took; the entries left in the queue together with
\* the devices bound to workers are the devices supplied, so that once every
\* worker is initialized the bound devices are exactly the supplied ones.
C3_DeviceBinding ==
    workers # <<>> =>
        /\ Len(workers) = Len(devices)
        /\ \A w \in DOMAIN workers :
               /\ workers[w].takes = (IF Initialized(w) THEN 1 ELSE 0)
               /\ workers[w].pc = "spawned" => ~Initialized(w)
               /\ workers[w].pc \notin {"spawned", "terminated"} => Initialized(w)
        /\ \A i \in 1..Len(handed) :
               /\ Initialized(handed[i].worker)
               /\ handed[i].device = workers[handed[i].worker].data_sources.device
        /\ SeqToBag(queue) (+) BoundDevices = SeqToBag(devices)
        /\ (\A w \in DOMAIN workers : Initialized(w)) =>
               BoundDevices = SeqToBag(devices)

\* Two workers bound to the two different devices supplied, both having
\* processed a block.
C3_Witness ==
    /\ Len(workers) = 2
    /\ devices[1] # devices[2]
    /\ Initialized(1) /\ Initialized(2)
    /\ workers[1].data_sources.device # workers[2].data_sources.device
    /\ \E i, j \in 1..Len(handed) : handed[i].worker = 1 /\ handed[j].worker = 2

\* C4: with a callable progress callback, the calls made so far are
\* (1, block_count), (2, block_count), ..., one per collected completion in
\* arrival order, and at the return there are block_count of them; a value
\* that is not callable is never called.
C4_ProgressCalls ==
    /\ args.progress_callback_fn.kind = "function" =>
           /\ Len(progress_calls) = Len(results)
           /\ Len(progress_calls) = count
           /\ \A k \in 1..Len(progress_calls) : progress_calls[k] = << k, block_count >>
           /\ pc = "returned" => Len(progress_calls) = block_count
    /\ args.progress_callback_fn.kind # "function" => progress_calls = <<>>

\* A return after three calls, the completions not in block-id order.
C4_Witness ==
    /\ pc = "returned"
    /\ args.progress_callback_fn = Function
    /\ Len(progress_calls) = 3
    /\ results[1] # 0

\* Whether block b's interior is written in every output array that exists.
FullyWritten(b) ==
    \A k \in OutputKinds :
        ArrayOf(k) # None => \A v \in Interior(b) : <<v, b>> \in store[k]

\* C5: nothing is handed to the caller before the return; a completion
\* signal is emitted only once every requested output of its block is
\* written; at the return every block id has completed and every requested
\* output holds the interior region of every block.
C5_ReturnAfterAllWritten ==
    /\ pc # "returned" => returned = None
    /\ \A i \in 1..Len(outqueue) :
           outqueue[i].success => FullyWritten(outqueue[i].value)
    /\ \A i \in 1..Len(results) : FullyWritten(results[i])
    /\ pc = "returned" =>
           /\ { results[i] : i \in 1..Len(results) } = BlockIds
           /\ \A b \in BlockIds : FullyWritten(b)
           /\ \E k \in OutputKinds : ArrayOf(k) # None

\* A return with two outputs over three blocks, all written.
C5_Witness ==
    /\ pc = "returned"
    /\ block_count = 3
    /\ eigenvectors_array # None /\ eigenvalues_array # None
    /\ \A b \in BlockIds : \A v \in Interior(b) :
           <<v, b>> \in store["eigenvectors"] /\ <<v, b>> \in store["eigenvalues"]

\* The arrays of a returned value: a single array, or the items of a tuple.
ReturnedArrays(r) == IF r.kind = "tuple" THEN r.items ELSE << r >>

\* The requested output kinds in the order tensor, eigenvectors, eigenvalues.
RequestedKinds ==
    (IF args.structure_tensor # None THEN << "structure_tensor" >> ELSE <<>>)
        \o (IF args.eigenvectors # None THEN << "eigenvectors" >> ELSE <<>>)
        \o (IF args.eigenvalues # None THEN << "eigenvalues" >> ELSE <<>>)

\* C6: the call returns as many arrays as outputs were requested (a single
\* array for one, a tuple for two or three), and they are the requested
\* outputs' arrays in the order tensor, eigenvectors, eigenvalues.
C6_ReturnOrder ==
    pc = "returned" =>
        LET R == ReturnedArrays(returned)
        IN  /\ Len(R) = Len(RequestedKinds)
            /\ Len(R) \in 1..3
            /\ returned.kind = "tuple" <=> Len(R) >= 2
            /\ \A i \in 1..Len(R) :
                   /\ R[i] # None
                   /\ R[i] = ArrayOf(RequestedKinds[i])
                   /\ RequestOf(RequestedKinds[i]).kind = "memmap" =>
                          R[i] = RequestOf(RequestedKinds[i])
                   /\ RequestOf(RequestedKinds[i]).kind = "dtype" =>
                          R[i].kind = "ndarray" /\ R[i].dtype = RequestOf(RequestedKinds[i]).name
            /\ \A i, j \in 1..Len(R) : i # j => R[i] # R[j]

\* A return of the tensor and the eigenvalues, eigenvectors not requested.
C6_Witness ==
    /\ pc = "returned"
    /\ args.eigenvectors = None
    /\ args.structure_tensor # None /\ args.eigenvalues # None
    /\ returned.kind = "tuple"
    /\ returned.items = << structure_tensor_array, eigenvalues_array >>

\* `cpu` or `cuda:<non-negative integer>`, case-insensitive.
MatchesDevicePattern(d) ==
    /\ d.kind = "str"
    /\ LET l == Lower(d.chars)
       IN  \/ l = CPU
           \/ /\ StartsWith(l, CUDA_COLON)
              /\ Len(l) > Len(CUDA_COLON)
              /\ \A i \in (Len(CUDA_COLON) + 1)..Len(l) : l[i] \in Digits

PastDeviceCheck ==
    pc \notin {"check_outputs", "volume", "eigenvectors", "eigenvalues",
               "structure_tensor", "devices"}

\* C7: a supplied device list with an entry that is neither `cpu` nor
\* `cuda:<non-negative integer>` makes the call raise ValueError at the device
\* check, with the queue still empty and no worker spawned; without a device
\* list the devices are one "cpu" per processing unit.
C7_DeviceValidation ==
    /\ (/\ args.devices # None
        /\ \E i \in 1..Len(args.devices.items) :
               ~MatchesDevicePattern(args.devices.items[i])) =>
           /\ queue = <<>>
           /\ workers = <<>>
           /\ PastDeviceCheck => pc = "raised" /\ raised = ValueError
    /\ (args.devices = None /\ PastDeviceCheck) =>
           devices = [i \in 1..ncpu |-> PyStr(CPU)]

\* The shape the specification calls canonical for an output kind.
CanonicalShape(k) ==
    CASE k = "structure_tensor" -> <<6>> \o args.volume.shape
      [] k = "eigenvectors" -> <<3, 3>> \o args.volume.shape
      [] k = "eigenvalues" ->
             IF args.include_all_eigenvalues THEN <<3, 3>> \o args.volume.shape
             ELSE <<3>> \o args.volume.shape

\* The shape the code allocates for an output kind.
AllocatedShape(k) ==
    CASE k = "structure_tensor" -> <<6>> \o args.volume.shape
      [] k = "eigenvectors" -> <<3>> \o args.volume.shape
      [] k = "eigenvalues" ->
             IF args.include_all_eigenvalues THEN <<3, 3>> \o args.volume.shape
             ELSE <<3>> \o args.volume.shape

Fresh(k) == RequestOf(k).kind = "dtype" /\ ArrayOf(k) # None

\* A fresh array's allocation is zero-filled, of the array's size, and
\* nothing is written to it before the pool runs.
ZeroInitialized(k) ==
    LET a == ArrayOf(k)
    IN  /\ a.raw \in 1..Len(raw_arrays)
        /\ raw_arrays[a.raw].fill = "zeros"
        /\ raw_arrays[a.raw].shape = a.shape
        /\ raw_arrays[a.raw].nbytes = Prod(a.shape) * itemsize(a.dtype)
        /\ workers = <<>> => store[k] = {}

\* C8 as stated: every fresh output has the canonical shape, eigenvectors
\* (3,3,X,Y,Z), and is zero-initialized.
C8_CanonicalShapes ==
    \A k \in OutputKinds :
        Fresh(k) => ArrayOf(k).shape = CanonicalShape(k) /\ ZeroInitialized(k)

\* C8, amended: a fresh tensor has shape (6,X,Y,Z), fresh eigenvectors
\* (3,X,Y,Z), fresh eigenvalues (3,X,Y,Z) or, with include_all_eigenvalues,
\* (3,3,X,Y,Z); each fresh allocation is zero-initialized.
C8_FreshShapes ==
    \A k \in OutputKinds :
        Fresh(k) => ArrayOf(k).shape = AllocatedShape(k) /\ ZeroInitialized(k)

\* All three outputs freshly allocated, with include_all_eigenvalues.
C8_Witness ==
    /\ pc = "devices"
    /\ args.include_all_eigenvalues
    /\ \A k \in OutputKinds : Fresh(k)
    /\ eigenvalues_array.shape = <<3, 3>> \o args.volume.shape
    /\ eigenvectors_array.shape = <<3>> \o args.volume.shape

\* The descriptor passed to workers for an output kind.
ArgsOf(k) ==
    CASE k = "structure_tensor" -> structure_tensor_args
      [] k = "eigenvectors" -> eigenvectors_args
      [] k = "eigenvalues" -> eigenvalues_args

\* The caller's memmap for kind k has been through its provisioning step.
MemmapProvisioned(k) == RequestOf(k).kind = "memmap" /\ ArgsOf(k) # None

\* The supplied array is the output: its own path, shape, dtype and offset in
\* a read-write descriptor, the array itself as the handle, no allocation.
Adopted(k) ==
    LET m == RequestOf(k)
    IN  /\ ArgsOf(k) = [kind |-> "_MemoryMapArgs", path |-> m.filename,
                        shape |-> m.shape, dtype |-> m.dtype, offset |-> m.offset,
                        mode |-> "r+"]
        /\ ArrayOf(k) = m
        /\ Len(raw_arrays) =
               (IF data_args.kind = "_RawArrayArgs" THEN 1 ELSE 0)
                   + Cardinality({ j \in OutputKinds : ArgsOf(j).kind = "_RawArrayArgs" })
        /\ pc = "returned" =>
               \E i \in 1..Len(ReturnedArrays(returned)) : ReturnedArrays(returned)[i] = m

\* A fresh output has the dtype the caller requested.
DtypeHonored(k) ==
    RequestOf(k).kind = "dtype" /\ ArgsOf(k) # None =>
        ArgsOf(k).dtype = RequestOf(k).name /\ ArrayOf(k).dtype = RequestOf(k).name

NoOutputRequested ==
    args.eigenvectors = None /\ args.eigenvalues = None /\ args.structure_tensor = None

BadVolume == args.volume.kind \notin {"ndarray", "memmap"}

\* C10: when no output is requested, or the volume is neither an ndarray nor
\* a memmap, the call raises ValueError with nothing allocated, the device
\* queue empty and no worker spawned.
C10_ValidationFirst ==
    (NoOutputRequested \/ BadVolume) =>
        /\ raw_arrays = <<>>
        /\ data_args = None
        /\ \A k \in OutputKinds : ArgsOf(k) = None /\ ArrayOf(k) = None
        /\ queue = <<>>
        /\ workers = <<>>
        /\ pc \in {"check_outputs", "volume", "raised"}
        /\ pc = "raised" => raised = ValueError
        /\ pc = "volume" => ~NoOutputRequested

\* The volume check has rejected a list, outputs being requested.
C10_Witness ==
    /\ pc = "raised"
    /\ raised = ValueError
    /\ BadVolume
    /\ ~NoOutputRequested

\* A device the device check accepts as a GPU device: "cuda:" in it, in any
\* letter case.
AcceptedAsGpu(d) == d.kind = "str" /\ Contains(CUDA_COLON, Lower(d.chars))

\* The worker is inside a block procedure, past the choice of the kernel.
InBlockProcedure(w) == workers[w].pc \in {"eigenvectors", "eigenvalues", "return"}

\* The N of a device named cuda:<N>.
GpuIndex(d) == IntOf(Split(d.chars, ":")[2])

\* C11: in every block procedure the GPU kernel is the one selected exactly
\* when the GPU backend is available and the worker's device is one accepted
\* as a GPU device (cuda:<N> in any letter case), and then device N is
\* selected; otherwise the CPU kernel is; and no block procedure raises.
C11_KernelSelection ==
    /\ \A w \in DOMAIN workers :
           InBlockProcedure(w) =>
               LET d == workers[w].data_sources.device
               IN  /\ workers[w].lib = "cp" <=> (cp /\ AcceptedAsGpu(d))
                   /\ workers[w].lib = "cp" =>
                          workers[w].selected /\ workers[w].device_id = GpuIndex(d)
                   /\ workers[w].lib # "cp" => workers[w].lib = "np"
    /\ \A i \in 1..Len(outqueue) : outqueue[i].success

\* The voxels an output holds after the writes made so far.
WrittenVoxels(k) == { p[1] : p \in store[k] }

\* C12: block ids 0..block_count-1 partition the volume: the interior regions
\* of two different ids share no voxel and together they are the whole
\* volume; so that at the return the output written block by block holds
\* every voxel of the volume, each written by one block id.
C12_Partition ==
    pc = "returned" =>
        /\ block_count = get_block_count(args.volume.shape, args.block_size)
        /\ \A b, c \in BlockIds : b # c => Interior(b) \cap Interior(c) = {}
        /\ UNION { Interior(b) : b \in BlockIds } = Voxels(args.volume.shape)
        /\ \A b \in BlockIds : Interior(b) # {}
        /\ WrittenVoxels("eigenvalues") = Voxels(args.volume.shape)
        /\ Cardinality(store["eigenvalues"]) = Cardinality(Voxels(args.volume.shape))

\* A return for a volume cut into four blocks, clipped along two axes.
C12_Witness ==
    /\ pc = "returned"
    /\ args.volume.shape = << 3, 3, 2 >>
    /\ args.block_size = 2
    /\ block_count = 4
    /\ \E b \in BlockIds : Cardinality(Interior(b)) = 2
    /\ Cardinality(store["eigenvalues"]) = 18

\* C13: a _do_work that runs where _worker_args or _data_sources is None
\* raises ValueError with no block fetched from the volume, no kernel
\* chosen, nothing written and no block id returned; every write and every
\* completion signal there is stems from a block handed to an initialized
\* worker of the pool.
C13_UninitializedFails ==
    /\ \A i \in 1..Len(direct) :
           /\ direct[i].raised = ValueError
           /\ direct[i].blk = None
           /\ direct[i].lib = "none"
           /\ direct[i].written = {}
           /\ direct[i].returned = None
    /\ \A i \in 1..Len(handed) : handed[i].device # None
    /\ \A r \in writes : \E i \in 1..Len(handed) : handed[i].block_id = r.block_id
    /\ \A k \in OutputKinds : \A p \in store[k] :
           \E i \in 1..Len(handed) : handed[i].block_id = p[2]
    /\ \A i \in 1..Len(outqueue) : outqueue[i].worker \in DOMAIN workers
    /\ Len(results) + Len(outqueue) <= Len(handed)

\* Two failed calls from the caller's process while the pool is at work, one
\* of them for a block the pool has not written.
C13_Witness ==
    /\ Len(direct) = 2
    /\ pc = "collect"
    /\ writes # {}
    /\ \E i \in 1..Len(direct) :
           /\ direct[i].raised = ValueError
           /\ \A r \in writes : r.block_id # direct[i].block_id

\* C14: what is written as eigenvalues is the kernel's val reversed along the
\* leading axis (written index i is kernel index 2 - i), hence, the kernel's
\* order being ascending, non-increasing with index 0 the largest; what is
\* written as eigenvectors is the kernel's vec in the kernel's order; and a
\* completed block has made these writes for the outputs requested.
C14_EigenvalueOrder ==
    /\ \A r \in writes :
           r.kind = "eigenvalues" =>
               /\ Len(r.axis0) = 3
               /\ \A i \in 0..2 : r.axis0[i + 1] = eig_special_3d.val[(2 - i) + 1]
               /\ \A i, j \in 1..3 : i < j => r.axis0[i] >= r.axis0[j]
               /\ r.axis0[1] > r.axis0[3]
    /\ \A r \in writes : r.kind = "eigenvectors" => r.axis0 = eig_special_3d.vec
    /\ \A i \in 1..Len(results) :
           /\ eigenvalues_array # None =>
                  \E r \in writes : r.kind = "eigenvalues" /\ r.block_id = results[i]
           /\ eigenvectors_array # None =>
                  \E r \in writes : r.kind = "eigenvectors" /\ r.block_id = results[i]

\* A return with the eigenvalues of two blocks written largest first and
\* their eigenvectors in the kernel's order.
C14_Witness ==
    /\ pc = "returned"
    /\ block_count = 2
    /\ eigenvalues_array # None
    /\ \A b \in BlockIds :
           /\ [kind |-> "eigenvalues", target |-> backing(eigenvalues_array),
               block_id |-> b, axis0 |-> << 2, 1, 0 >>] \in writes
           /\ \E r \in writes :
                  r.kind = "eigenvectors" /\ r.block_id = b /\ r.axis0 = << 0, 1, 2 >>

\* The memory the workers read the volume from.
VolumeBacking == backing(get_array(data_args))

\* C15: once workers exist the memory behind the volume is not written: a
\* shared-memory volume is the one allocation the parent filled with the
\* volume, made before any worker was spawned; a file-backed volume is
\* attached read-only by every worker; and no write of a block procedure
\* goes to the memory behind the volume.
C15_VolumeNeverWritten ==
    /\ workers # <<>> =>
           /\ data_args # None
           /\ data_args.kind = "_RawArrayArgs" =>
                  /\ raw_arrays[data_args.array].fill = "volume"
                  /\ \A i \in 1..Len(raw_arrays) :
                         raw_arrays[i].fill = "volume" => i = data_args.array
           /\ \A w \in DOMAIN workers :
                  /\ Initialized(w) => workers[w].data_sources.data = get_array(data_args)
                  /\ (Initialized(w) /\ data_args.kind = "_MemoryMapArgs") =>
                         ~workers[w].data_sources.data.writeable
           /\ \A r \in writes : r.target # VolumeBacking
    /\ workers = <<>> => writes = {}

\* The blocks handed to worker w, in the order it took them.
HandedTo(w) == SelectSeq(handed, LAMBDA h : h.worker = w)

\* The block procedure of block b has ended: its completion signal or its
\* exception is on the way to the parent, or was collected.
Ended(b) ==
    \/ \E i \in 1..Len(outqueue) : outqueue[i].block_id = b
    \/ \E i \in 1..Len(results) : results[i] = b

\* C16: while the pool runs, a worker has at most one block procedure in
\* progress: every block it took before its latest has ended, the latest is
\* the one in progress if it is inside a block procedure, and an idle worker
\* has none in progress.
C16_SequentialPerWorker ==
    pc = "collect" =>
        \A w \in DOMAIN workers :
            LET H == HandedTo(w)
            IN  /\ \A i \in 1..(Len(H) - 1) : Ended(H[i].block_id)
                /\ InBlockProcedure(w) =>
                       /\ Len(H) >= 1
                       /\ H[Len(H)].block_id = workers[w].block_id
                       /\ ~Ended(workers[w].block_id)
                /\ workers[w].pc \in {"spawned", "idle"} =>
                       \A i \in 1..Len(H) : Ended(H[i].block_id)
                /\ workers[w].pc = "spawned" => Len(H) = 0

\* Two workers inside block procedures at the same time, block 1 completed
\* and collected while block 0 is still in progress.
C16_Witness ==
    /\ pc = "collect"
    /\ Len(workers) = 2
    /\ InBlockProcedure(1) /\ InBlockProcedure(2)
    /\ results = << 1 >>
    /\ \E w \in DOMAIN workers : workers[w].block_id = 0
    /\ \E w \in DOMAIN workers : workers[w].block_id = 2 /\ Len(HandedTo(w)) = 2

\* C17: every device list that passes the device check is one the workers
\* resolve without raising: for each of its entries the compute path of
\* _do_work completes, so that no task ends with an exception and the call
\* raises nothing once the pool exists.
C17_AcceptedDevicesResolve ==
    /\ (PastDeviceCheck /\ (pc = "raised" => workers # <<>>)) =>
           \A i \in 1..Len(devices) : compute_path(devices[i]).ok
    /\ \A i \in 1..Len(outqueue) : outqueue[i].success
    /\ workers # <<>> => raised = None

\* No entry of the device list makes the compute path raise.
NoBlockRaises == \A i \in 1..Len(devices) : compute_path(devices[i]).ok

\* The device takes made so far.
RECURSIVE TakesOf(_)
TakesOf(ws) == IF ws = <<>> THEN 0 ELSE Head(ws).takes + TakesOf(Tail(ws))

\* Every initialization finds a device: the pool has as many workers as
\* devices were put, the takes and the entries left add up to the entries
\* put, and each worker still to initialize has an entry waiting for it.
TakesWithinPuts ==
    workers # <<>> =>
        /\ Len(workers) = Len(devices)
        /\ TakesOf(workers) + Len(queue) = Len(devices)
        /\ Cardinality({ w \in DOMAIN workers : workers[w].pc = "spawned" }) <= Len(queue)

\* C18: under fair scheduling, a call that has started its pool and whose
\* devices make no block procedure raise eventually returns with all
\* block_count completions collected; and no initialization can block on the
\* device queue.
C18_EventuallyReturns ==
    /\ [] TakesWithinPuts
    /\ (pc = "collect" /\ NoBlockRaises) ~> (pc = "returned" /\ count = block_count)

\* A return of a call with one block and two workers, both initialized.
C18_Witness ==
    /\ pc = "returned"
    /\ block_count = 1
    /\ Len(workers) = 2
    /\ count = 1
    /\ \A w \in DOMAIN workers : workers[w].takes = 1
    /\ queue = <<>>

\* The output kinds the caller requested.
Requested == { k \in OutputKinds : RequestOf(k) # None }

\* The allocations the call makes: one for an ndarray volume, one for every
\* output requested by dtype.
ExpectedAllocations ==
    (IF args.volume.kind = "ndarray" THEN 1 ELSE 0)
        + Cardinality({ k \in OutputKinds : RequestOf(k).kind = "dtype" })

\* C19: an output that is not requested gets no allocation, no descriptor and
\* no array, no worker attaches anything for it and nothing is ever written
\* for it; every write goes to the memory of a requested output, and a
\* completed block has written exactly the requested outputs.
C19_UnrequestedUntouched ==
    /\ \A k \in OutputKinds \ Requested :
           /\ ArgsOf(k) = None
           /\ ArrayOf(k) = None
           /\ store[k] = {}
           /\ \A r \in writes : r.kind # k
           /\ \A w \in DOMAIN workers :
                  Initialized(w) => workers[w].data_sources[k] = None
    /\ Len(raw_arrays) <= ExpectedAllocations
    /\ pc \in {"devices", "queue", "pool", "collect", "returned"} =>
           Len(raw_arrays) = ExpectedAllocations
    /\ \A r \in writes :
           /\ r.kind \in Requested
           /\ r.target = backing(ArrayOf(r.kind))
    /\ \A i \in 1..Len(results) :
           { r.kind : r \in { q \in writes : q.block_id = results[i] } } = Requested

\* A return after two blocks with the eigenvectors not requested: both
\* blocks wrote the tensor and the eigenvalues, nothing else.
C19_Witness ==
    /\ pc = "returned"
    /\ block_count = 2
    /\ Requested = {"structure_tensor", "eigenvalues"}
    /\ store["eigenvectors"] = {}
    /\ store["structure_tensor"] # {} /\ store["eigenvalues"] # {}
    /\ Cardinality(writes) = 4

\* C20: the ValueError("No output generated.") that ends the function is
\* never raised: a call whose pool loop has run to its end has one to three
\* output arrays, and it returns them.
C20_FinalRaiseUnreachable ==
    /\ raised # NoOutputGenerated
    /\ pc \notin {"check_outputs", "raised"} => ~NoOutputRequested
    /\ (pc = "collect" /\ loop_finished(count, block_count)) =>
           Len(output_list(structure_tensor_array, eigenvectors_array,
                           eigenvalues_array)) \in 1..3
    /\ pc = "returned" =>
           /\ count = block_count
           /\ Len(ReturnedArrays(returned)) \in 1..3
           /\ \A i \in 1..Len(ReturnedArrays(returned)) :
                  ReturnedArrays(returned)[i] # None

\* A return of all three outputs.
C20_Witness ==
    /\ pc = "returned"
    /\ returned.kind = "tuple"
    /\ Len(returned.items) = 3
    /\ count = block_count

====
